---------------------------- MODULE Spec2Model ----------------------------
(***************************************************************************)
(* Model of src/estimator_helpers.py: the Estimator class and its          *)
(* estimate_pose method (pose refinement by gradient descent over a twist),*)
(* with find_POI and the three pixel-sampling strategies.                  *)
(*                                                                         *)
(* Abstractions:                                                           *)
(*  - the twist parameters are named by the number of optimizer steps that *)
(*    produced them plus a flag telling whether they are still finite; the *)
(*    candidate pose is the symbolic term cam_transf(start_pose) at a      *)
(*    given twist;                                                         *)
(*  - the learning rate base * 0.8^(e/100) is the symbolic pair (base, e); *)
(*  - the renderer, the SIFT detector and the noise generator are external *)
(*    collaborators: their outputs are nondeterministic;                   *)
(*  - the observed image has the H x W shape of the estimator's grid;      *)
(*  - TEST (line 10) is False: only the else branch of line 273 is taken.  *)
(***************************************************************************)
EXTENDS Integers, Sequences, FiniteSets, TLC

VARIABLES
  \* ---- Estimator fields (Estimator.__init__, lines 95-114)
  batch_size, kernel_size, dil_iter, lrate, sampling_strategy, noise,
  N_iter, W, H,
  \* ---- the environment of a call
  npIntAlias,        \* whether numpy still has the alias np.int (line 195)
  hasDepth,          \* whether obs_img_depth was passed (default None, line 116)
  start_pose,
  \* ---- estimate_pose locals
  pc, k, POI, not_POI, interest_regions, batch, twist, pose, lr, loss,
  \* ---- results and observations
  pose_prior, ret,
  rng,               \* the stochastic work done so far
  drawn,             \* whether the last pass through line 184 drew a batch
  n_logs,            \* how many times the diagnostics were printed
  \* ---- brightness shift of one value-channel sample (lines 121-131)
  bs_pc, bs_v, bs_delta, bs_out,
  \* ---- one pixel of the observed image through lines 118-147
  obs8,              \* its 8-bit value as passed by the caller
  obs_img,           \* its current float value, in units of 1 / 255^2
  n_norm,            \* how many times it was divided by 255
  noise_in,          \* the value handed to the noise step
  poi8,              \* its 8-bit value in obs_img_noised_POI (line 147)
  \* ---- convergence diagnostics (lines 293-306)
  dg_pc, ref_ang, cur_ang, ang_error, rot_error

cfgVars  == <<batch_size, kernel_size, dil_iter, lrate, sampling_strategy,
              noise, N_iter, W, H, npIntAlias, hasDepth, start_pose>>
runVars  == <<pc, k, POI, not_POI, interest_regions, batch, twist, pose, lr,
              loss, pose_prior, ret, rng, drawn, n_logs>>
bsVars   == <<bs_pc, bs_v, bs_delta, bs_out,
              obs8, obs_img, n_norm, noise_in, poi8>>
dgVars   == <<dg_pc, ref_ang, cur_ang, ang_error, rot_error>>
vars     == <<cfgVars, runVars, bsVars, dgVars>>

-----------------------------------------------------------------------------
\* Bounds of the model.
MaxBatch == 2      \* batch_size ranges over 1..MaxBatch
MaxIter  == 2      \* N_iter ranges over 0..MaxIter
MaxKp    == 2      \* the detector returns at most MaxKp keypoints
MaxInterval == 2   \* resample intervals a caller may ask for: 1..MaxInterval
ValScale == 12     \* fixed point: the value 1.0 of the value channel

\* Module-level constant of the source: the batch is redrawn when k % N == 0.
N == 1

\* renderer.hwf values considered.  Line 112 unpacks them in the order
\* W, H, focal: a square grid and a 3 x 1 one.
HWFs == {<<2, 2, 1>>, <<3, 1, 1>>}

KnownStrategies == {"random", "interest_points", "interest_regions"}
Strategies      == KnownStrategies \cup {"unknown"}
NoiseKinds      == {"gaussian", "s_and_p", "pepper", "salt", "poisson"}
NoiseArgs       == {"none", "gaussian"}
KernelSizes     == {1, 2, 3}
DilIters        == {1}
LRates          == {1, 10}          \* in units of 1e-3 (default .01)
StartPoses      == {"T0"}

-----------------------------------------------------------------------------
\* Generic helpers on sequences.
Range(s) == {s[i] : i \in DOMAIN s}

\* Coordinates are pairs <<x, y>>.  The elements of S as a sequence in
\* row-major order (y, then x).
Before(p, q) == p[2] < q[2] \/ (p[2] = q[2] /\ p[1] <= q[1])
RECURSIVE RowMajor(_)
RowMajor(S) ==
  IF S = {} THEN <<>>
  ELSE LET m == CHOOSE p \in S : \A q \in S : Before(p, q)
       IN  <<m>> \o RowMajor(S \ {m})

\* np.random.choice(a, size=size, replace=False): the possible index arrays
\* (0-based indices shifted to 1-based); empty when size > a, where numpy
\* raises ValueError.
\* (faulty variant: replace=True)
ChoiceWithReplacement(a, size) == [1..size -> 1..a]
Choice(a, size) ==
  {s \in [1..size -> 1..a] : \A i, j \in 1..size : i # j => s[i] # s[j]}

\* arr[rand_inds]
Take(arr, inds) == [i \in DOMAIN inds |-> arr[inds[i]]]

-----------------------------------------------------------------------------
\* Estimator.__init__: the pixel grid self.coords, shape (H, W, 2), and its
\* reshape to (H*W, 2) on line 165.
Grid(w, h)   == {<<x, y>> : x \in 0..(w - 1), y \in 0..(h - 1)}
coords(w, h) == [i \in 1..(w * h) |-> <<(i - 1) % w, (i - 1) \div w>>]

\* The detector's output (line 27): at most MaxKp keypoints inside the
\* image, their float positions keypoint.pt given in half pixels.  find_POI
\* uses the positions as a set, so they are drawn as a set.
KeypointPts(w, h) == {<<x2, y2>> : x2 \in 0..(2 * w - 1), y2 \in 0..(2 * h - 1)}
RECURSIVE KeypointSetsUpTo(_, _, _)
KeypointSetsUpTo(n, w, h) ==
  IF n = 0 THEN {{}}
  ELSE LET smaller == KeypointSetsUpTo(n - 1, w, h)
       IN  smaller \cup {S \cup {p} : S \in smaller, p \in KeypointPts(w, h)}
KeypointSets(w, h) == KeypointSetsUpTo(MaxKp, w, h)

\* find_POI (lines 23-34): the positions truncated by astype(int),
\* deduplicated through a set, and listed as an array (the set's iteration
\* order is some fixed order; row-major here).
AsInt(pt) == <<pt[1] \div 2, pt[2] \div 2>>
find_POI(kps) == RowMajor({AsInt(p) : p \in kps})

\* cv2.dilate with a ks x ks structuring element of ones anchored at its
\* centre (ks \div 2); pixels outside the image do not contribute.
Dilate1(S, ks, w, h) ==
  {p \in Grid(w, h) :
     \E dx \in 0..(ks - 1), dy \in 0..(ks - 1) :
        <<p[1] + dx - (ks \div 2), p[2] + dy - (ks \div 2)>> \in S}
RECURSIVE Dilate(_, _, _, _, _)
Dilate(S, ks, it, w, h) ==
  IF it = 0 THEN S ELSE Dilate(Dilate1(S, ks, w, h), ks, it - 1, w, h)

\* lines 157-162: the mask set at POI, dilated, and the grid coordinates it
\* selects (boolean indexing is row-major).
InterestRegions(poi, ks, it, w, h) ==
  RowMajor(Dilate(Range(poi), ks, it, w, h))

\* lines 168-169 (faulty variant first: POI is not subtracted)
NotPOI_WholeGrid(poi, w, h) == RowMajor(Grid(w, h))
NotPOI(poi, w, h) == RowMajor(Grid(w, h) \ Range(poi))

-----------------------------------------------------------------------------
\* Values of the call.
NoPose        == [kind |-> "unbound"]
Twist0        == [n |-> 0, nan |-> FALSE]
Running       == [kind |-> "running"]
ReturnNone    == [kind |-> "return_none"]
Return(p)     == [kind |-> "return", val |-> p]
Raise(e)      == [kind |-> "raise", exc |-> e]

\* camera_transf.forward (lines 84-92): exp(twist) @ x, recomputed from the
\* current parameters.
Forward(tw, x) == [kind |-> "pose", start |-> x, tw |-> tw]

\* line 285: new_lrate = self.lrate * (0.8 ** ((k + 1) / 100))
\* (faulty variant first: the decay applied to the optimizer's current rate)
NewLrateCompounded(base, cur, kk) == [base |-> cur.base, e |-> cur.e + kk + 1]
NewLrate(base, cur, kk) == [base |-> base, e |-> kk + 1]

\* optimizer.step() (line 283): one Adam update of the twist; a non-finite
\* loss gives non-finite gradients and parameters.
OptStep(tw, ls) == [n |-> tw.n + 1, nan |-> tw.nan \/ ls = "nonfinite"]


-----------------------------------------------------------------------------
\* The state before estimate_pose is called: an Estimator was constructed
\* (lines 95-114) from the configuration and the renderer's hwf.
RunInit ==
  /\ pc = "preprocess" /\ k = 0
  /\ POI = <<>> /\ not_POI = <<>> /\ interest_regions = <<>> /\ batch = <<>>
  /\ twist = Twist0 /\ pose = NoPose /\ lr = [base |-> 0, e |-> 0]
  /\ loss = "none" /\ pose_prior = NoPose /\ ret = Running
  /\ rng = {} /\ drawn = FALSE /\ n_logs = 0

\* The configurations considered: every sampling strategy, batch size and
\* iteration count, with the other parameters varied one at a time around
\* their defaults <<noise, lrate, kernel_size, np.int present, depth passed>>.
DefaultOthers == <<"none", 10, 3, TRUE, TRUE>>
OtherParams ==
  {DefaultOthers}
    \cup {[DefaultOthers EXCEPT ![1] = x] : x \in NoiseArgs}
    \cup {[DefaultOthers EXCEPT ![2] = x] : x \in LRates}
    \cup {[DefaultOthers EXCEPT ![3] = x] : x \in KernelSizes}
    \cup {[DefaultOthers EXCEPT ![4] = x] : x \in BOOLEAN}
    \cup {[DefaultOthers EXCEPT ![5] = x] : x \in BOOLEAN}

CfgInit ==
  /\ batch_size \in 1..MaxBatch
  /\ sampling_strategy \in Strategies
  /\ N_iter \in 0..MaxIter
  /\ \E o \in OtherParams :
       /\ noise = o[1] /\ lrate = o[2] /\ kernel_size = o[3]
       /\ npIntAlias = o[4] /\ hasDepth = o[5]
  /\ dil_iter \in DilIters
  /\ \E hwf \in HWFs : W = hwf[1] /\ H = hwf[2]       \* line 112
  /\ start_pose \in StartPoses

PixelIdle ==
  obs8 = 0 /\ obs_img = 0 /\ n_norm = 0 /\ noise_in = 0 /\ poi8 = 0
BsIdle ==
  bs_pc = "off" /\ bs_v = 0 /\ bs_delta = 0 /\ bs_out = 0 /\ PixelIdle
DgIdle ==
  /\ dg_pc = "off" /\ ref_ang = <<0, 0, 0>> /\ cur_ang = <<0, 0, 0>>
  /\ ang_error = <<0, 0, 0>> /\ rot_error = 0

Init == CfgInit /\ RunInit /\ BsIdle /\ DgIdle

\* The call ends: a return or a raised exception.
End(r) == pc' = "done" /\ ret' = r

\* lines 118-147: normalisation, brightness shift and noise of the observed
\* image.  Every noise mode of skimage.util.random_noise draws random numbers.
Preprocess ==
  /\ pc = "preprocess"
  /\ rng' = IF noise \in NoiseKinds THEN rng \cup {"noise"} ELSE rng
  /\ pc' = "poi"
  /\ UNCHANGED <<k, POI, not_POI, interest_regions, batch, twist, pose, lr,
                 loss, pose_prior, ret, drawn, n_logs>>
  /\ UNCHANGED <<cfgVars, bsVars, dgVars>>

\* lines 149-169: the POI, the interest regions and not_POI.  With no
\* keypoint find_POI returns an array of shape (0,), and POI[:,1] on line
\* 158 raises IndexError.
BuildPOI ==
  /\ pc = "poi"
  /\ IF sampling_strategy \in {"interest_regions", "interest_points"}
     THEN \E kps \in KeypointSets(W, H) : LET poi == find_POI(kps) IN
            /\ POI' = poi
            /\ IF sampling_strategy = "interest_regions"
               THEN IF Len(poi) = 0
                    THEN /\ End(Raise("IndexError"))
                         /\ UNCHANGED <<interest_regions, not_POI>>
                    ELSE /\ interest_regions' =
                              InterestRegions(poi, kernel_size, dil_iter, W, H)
                         /\ pc' = "model"
                         /\ UNCHANGED <<ret, not_POI>>
               ELSE /\ not_POI' = NotPOI(poi, W, H)
                    /\ pc' = "model"
                    /\ UNCHANGED <<ret, interest_regions>>
     ELSE /\ pc' = "model"
          /\ UNCHANGED <<POI, not_POI, interest_regions, ret>>
  /\ UNCHANGED <<k, batch, twist, pose, lr, loss, pose_prior, rng, drawn,
                 n_logs>>
  /\ UNCHANGED <<cfgVars, bsVars, dgVars>>

\* lines 171-180: a fresh camera_transf (its parameters drawn by
\* torch.normal) and a fresh Adam optimizer with lr = self.lrate; then the
\* loop header of line 182.
CreateModel ==
  /\ pc = "model"
  /\ twist' = Twist0
  /\ rng' = rng \cup {"twist_init"}
  /\ lr' = [base |-> lrate, e |-> 0]
  /\ pc' = IF k < N_iter THEN "sample" ELSE "finish"
  /\ UNCHANGED <<k, POI, not_POI, interest_regions, batch, pose, loss,
                 pose_prior, ret, drawn, n_logs>>
  /\ UNCHANGED <<cfgVars, bsVars, dgVars>>

\* lines 186-188
SampleRandom ==
  IF Choice(W * H, batch_size) = {}
  THEN End(Raise("ValueError")) /\ UNCHANGED <<batch, rng, drawn>>
  ELSE \E rand_inds \in Choice(W * H, batch_size) :
         /\ batch' = Take(coords(W, H), rand_inds)
         /\ rng' = rng \cup {"sampling"} /\ drawn' = TRUE
         /\ pc' = "render" /\ UNCHANGED ret

\* lines 190-198.  np.zeros(..., dtype=np.int) raises AttributeError where
\* numpy has no alias np.int; batch[:0] = POI with POI of shape (0,) cannot
\* be broadcast into shape (0, 2) and raises ValueError.
SampleInterestPoints ==
  IF Len(POI) >= batch_size
  THEN \E rand_inds \in Choice(Len(POI), batch_size) :
         /\ batch' = Take(POI, rand_inds)
         /\ rng' = rng \cup {"sampling"} /\ drawn' = TRUE
         /\ pc' = "render" /\ UNCHANGED ret
  ELSE IF ~npIntAlias
  THEN End(Raise("AttributeError")) /\ UNCHANGED <<batch, rng, drawn>>
  ELSE IF Len(POI) = 0
  THEN End(Raise("ValueError")) /\ UNCHANGED <<batch, rng, drawn>>
  ELSE IF Choice(Len(not_POI), batch_size - Len(POI)) = {}
  THEN End(Raise("ValueError")) /\ UNCHANGED <<batch, rng, drawn>>
  ELSE \E rand_inds \in Choice(Len(not_POI), batch_size - Len(POI)) :
         /\ batch' = POI \o Take(not_POI, rand_inds)
         /\ rng' = rng \cup {"sampling"} /\ drawn' = TRUE
         /\ pc' = "render" /\ UNCHANGED ret

\* lines 200-202
SampleInterestRegions ==
  IF Choice(Len(interest_regions), batch_size) = {}
  THEN End(Raise("ValueError")) /\ UNCHANGED <<batch, rng, drawn>>
  ELSE \E rand_inds \in Choice(Len(interest_regions), batch_size) :
         /\ batch' = Take(interest_regions, rand_inds)
         /\ rng' = rng \cup {"sampling"} /\ drawn' = TRUE
         /\ pc' = "render" /\ UNCHANGED ret

\* line 184: whether iteration kk redraws the batch.
Resamples(kk) == kk % N = 0

\* lines 184-206: the batch of iteration k.  An unknown strategy prints a
\* message and returns None (lines 204-206).
Sample ==
  /\ pc = "sample"
  /\ IF Resamples(k)
     THEN CASE sampling_strategy = "random" -> SampleRandom
            [] sampling_strategy = "interest_points" -> SampleInterestPoints
            [] sampling_strategy = "interest_regions" -> SampleInterestRegions
            [] OTHER -> End(ReturnNone) /\ UNCHANGED <<batch, rng, drawn>>
     ELSE /\ pc' = "render" /\ drawn' = FALSE
          /\ UNCHANGED <<batch, rng, ret>>
  /\ UNCHANGED <<k, POI, not_POI, interest_regions, twist, pose, lr, loss,
                 pose_prior, n_logs>>
  /\ UNCHANGED <<cfgVars, bsVars, dgVars>>

\* obs_img_noised[batch[:, 1], batch[:, 0]]: rows are indexed by y, columns
\* by x, in an image of H rows and W columns.
InImage(p) == p[1] \in 0..(W - 1) /\ p[2] \in 0..(H - 1)

\* lines 208-278: the targets, the candidate pose, the rendering and the
\* loss.  The loss is whatever the renderer's output makes it; it is
\* non-finite once the twist is.
RenderLoss ==
  /\ pc = "render"
  /\ IF \E i \in DOMAIN batch : ~InImage(batch[i])
     THEN End(Raise("IndexError")) /\ UNCHANGED <<pose, loss>>
     ELSE IF ~hasDepth
     THEN End(Raise("TypeError")) /\ UNCHANGED <<pose, loss>>
     ELSE /\ pose' = Forward(twist, start_pose)
          /\ loss' \in (IF twist.nan THEN {"nonfinite"}
                                      ELSE {"finite", "nonfinite"})
          /\ pc' = "step" /\ UNCHANGED ret
  /\ UNCHANGED <<k, POI, not_POI, interest_regions, batch, twist, lr,
                 pose_prior, rng, drawn, n_logs>>
  /\ UNCHANGED <<cfgVars, bsVars, dgVars>>

\* lines 282-287: backward, one optimizer step, the new learning rate.
\* The local pose of line 214 is not recomputed after the step.
\* (Faulty variant first: the pose re-evaluated from the updated twist.)
Step_RecomputesPose ==
  /\ pc = "step"
  /\ twist' = OptStep(twist, loss)
  /\ lr' = NewLrate(lrate, lr, k)
  /\ pose' = Forward(twist', start_pose)
  /\ pc' = "log"
  /\ UNCHANGED <<k, POI, not_POI, interest_regions, batch, loss,
                 pose_prior, ret, rng, drawn, n_logs>>
  /\ UNCHANGED <<cfgVars, bsVars, dgVars>>
Step ==
  /\ pc = "step"
  /\ twist' = OptStep(twist, loss)
  /\ lr' = NewLrate(lrate, lr, k)
  /\ pc' = "log"
  /\ UNCHANGED <<k, POI, not_POI, interest_regions, batch, pose, loss,
                 pose_prior, ret, rng, drawn, n_logs>>
  /\ UNCHANGED <<cfgVars, bsVars, dgVars>>

\* lines 289-309 and the loop header of line 182: the diagnostics are
\* printed at k = 0 and whenever (k + 1) % 20 = 0; then the next iteration.
Log ==
  /\ pc = "log"
  /\ n_logs' = IF (k + 1) % 20 = 0 \/ k = 0 THEN n_logs + 1 ELSE n_logs
  /\ k' = k + 1
  /\ pc' = IF k + 1 < N_iter THEN "sample" ELSE "finish"
  /\ UNCHANGED <<POI, not_POI, interest_regions, batch, twist, pose, lr,
                 loss, pose_prior, ret, rng, drawn>>
  /\ UNCHANGED <<cfgVars, bsVars, dgVars>>

\* lines 321-323.  With no iteration the local pose was never bound and
\* line 321 raises UnboundLocalError.
\* (faulty variant first: the prior is not stored)
CachePrior_Dropped(p) == NoPose
CachePrior(p) == p
Finish ==
  /\ pc = "finish"
  /\ IF pose = NoPose
     THEN End(Raise("UnboundLocalError")) /\ UNCHANGED pose_prior
     ELSE /\ pose_prior' = CachePrior(pose)
          /\ End(Return(pose))
  /\ UNCHANGED <<k, POI, not_POI, interest_regions, batch, twist, pose, lr,
                 loss, rng, drawn, n_logs>>
  /\ UNCHANGED <<cfgVars, bsVars, dgVars>>

Next ==
  \/ Preprocess
  \/ BuildPOI
  \/ CreateModel
  \/ Sample
  \/ RenderLoss
  \/ Step
  \/ Log
  \/ Finish

Spec == Init /\ [][Next]_vars


-----------------------------------------------------------------------------
\* The brightness shift of one sample of the value channel (lines 124-130),
\* in fixed point with `one` standing for 1.0.  The two masked assignments
\* run one after the other, the second mask being computed on the result of
\* the first.  (Faulty variant first: the addition before the clamp.)
Abs(x) == IF x < 0 THEN -x ELSE x

BrightnessShift_AddFirst(v, delta, one) ==
  IF delta < 0
  THEN LET a == IF v >= Abs(delta) THEN v + delta ELSE v
       IN  IF a < Abs(delta) THEN 0 ELSE a
  ELSE LET lim == one - delta
           a   == IF v <= lim THEN v + delta ELSE v
       IN  IF a > lim THEN one ELSE a
BrightnessShift(v, delta, one) ==
  IF delta < 0
  THEN LET a == IF v < Abs(delta) THEN 0 ELSE v
       IN  IF a >= Abs(delta) THEN a + delta ELSE a
  ELSE LET lim == one - delta
           a   == IF v > lim THEN one ELSE v
       IN  IF a <= lim THEN a + delta ELSE a

CfgIdle ==
  /\ batch_size = 1 /\ kernel_size = 5 /\ dil_iter = 3 /\ lrate = 10
  /\ sampling_strategy = "random" /\ noise = "none" /\ N_iter = 0
  /\ W = 1 /\ H = 1 /\ npIntAlias = TRUE /\ hasDepth = TRUE
  /\ start_pose = "T0"
RunIdle ==
  /\ pc = "off" /\ k = 0
  /\ POI = <<>> /\ not_POI = <<>> /\ interest_regions = <<>> /\ batch = <<>>
  /\ twist = Twist0 /\ pose = NoPose /\ lr = [base |-> 0, e |-> 0]
  /\ loss = "none" /\ pose_prior = NoPose /\ ret = Running
  /\ rng = {} /\ drawn = FALSE /\ n_logs = 0

\* Every value in [0, 1] and every delta in [-1, 1].
ShiftInit ==
  /\ CfgIdle /\ RunIdle /\ DgIdle
  /\ bs_pc = "in" /\ bs_out = 0 /\ PixelIdle
  /\ bs_v \in 0..ValScale
  /\ bs_delta \in (-ValScale)..ValScale

\* lines 121-131 on the value channel: no shift when delta_brightness is 0.
ShiftValue ==
  /\ bs_pc = "in"
  /\ bs_out' = IF bs_delta # 0 THEN BrightnessShift(bs_v, bs_delta, ValScale)
                                ELSE bs_v
  /\ bs_pc' = "out"
  /\ UNCHANGED <<bs_v, bs_delta, obs8, obs_img, n_norm, noise_in, poi8>>
  /\ UNCHANGED <<cfgVars, runVars, dgVars>>

ShiftNext == ShiftValue
SpecShift == ShiftInit /\ [][ShiftNext]_vars

-----------------------------------------------------------------------------
\* One grey pixel (R = G = B, so its value channel is the pixel itself)
\* through the preprocessing of lines 118-147, without noise.  Floats are
\* exact fractions in units of 1 / 255^2, so that both divisions by 255 are
\* exact.
MaxPix == 255
One    == MaxPix * MaxPix            \* the float 1.0
ToFloat(p)    == p * One             \* np.array(obs_img) of an integer
DivBy255(x)   == x \div MaxPix       \* x / 255.
ToUint8(x)    == (x \div One) % 256  \* astype(np.uint8)

\* delta_brightness values considered: 0, +-1/255, +-0.5 (about), +-1.
PixelDeltas == {-One, -32640, -MaxPix, 0, MaxPix, 32640, One}

PixelInit ==
  /\ CfgIdle /\ RunIdle /\ DgIdle
  /\ bs_pc = "image" /\ bs_v = 0 /\ bs_out = 0
  /\ obs8 \in 0..MaxPix
  /\ bs_delta \in PixelDeltas
  /\ obs_img = ToFloat(obs8) /\ n_norm = 0 /\ noise_in = 0 /\ poi8 = 0

\* line 118
Normalize ==
  /\ bs_pc = "image"
  /\ obs_img' = DivBy255(obs_img)
  /\ n_norm' = n_norm + 1
  /\ bs_pc' = "normalized"
  /\ UNCHANGED <<bs_v, bs_delta, bs_out, obs8, noise_in, poi8>>
  /\ UNCHANGED <<cfgVars, runVars, dgVars>>

\* lines 121-131: with a delta the image is divided by 255 once more (line
\* 122) before its value channel is shifted.
Brighten ==
  /\ bs_pc = "normalized"
  /\ IF bs_delta # 0
     THEN LET v == DivBy255(obs_img) IN
          /\ n_norm' = n_norm + 1
          /\ bs_v' = v
          /\ bs_out' = BrightnessShift(v, bs_delta, One)
          /\ obs_img' = BrightnessShift(v, bs_delta, One)
     ELSE UNCHANGED <<n_norm, bs_v, bs_out, obs_img>>
  /\ bs_pc' = "brightened"
  /\ UNCHANGED <<bs_delta, obs8, noise_in, poi8>>
  /\ UNCHANGED <<cfgVars, runVars, dgVars>>

\* lines 133-147 with noise None: obs_img_noised is obs_img, and the image
\* given to the detector is its 8-bit rescaling.
NoiseAndRescale ==
  /\ bs_pc = "brightened"
  /\ noise_in' = obs_img
  /\ poi8' = ToUint8(obs_img * MaxPix)
  /\ bs_pc' = "noised"
  /\ UNCHANGED <<bs_v, bs_delta, bs_out, obs8, obs_img, n_norm>>
  /\ UNCHANGED <<cfgVars, runVars, dgVars>>

PixelNext == Normalize \/ Brighten \/ NoiseAndRescale
SpecPixel == PixelInit /\ [][PixelNext]_vars

-----------------------------------------------------------------------------
\* The convergence diagnostics (lines 302-305) on angles in whole degrees:
\* <<phi, theta, psi>> of the reference pose and of the candidate pose.
\* (Faulty variant first: no wraparound correction.)
AngError_NoWrap(ref, cur) == Abs(ref - cur)
AngError(ref, cur) ==
  IF Abs(ref - cur) < 300 THEN Abs(ref - cur)
                          ELSE Abs(Abs(ref - cur) - 360)

PhiAngles   == {10 * i : i \in (-18)..18}     \* arctan2: [-180, 180]
ThetaAngles == {-90, 0, 90}
PsiAngles   == {-180, 0, 170}

DiagInit ==
  /\ CfgIdle /\ RunIdle /\ BsIdle
  /\ dg_pc = "in" /\ ang_error = <<0, 0, 0>> /\ rot_error = 0
  /\ ref_ang \in PhiAngles \X ThetaAngles \X PsiAngles
  /\ cur_ang \in PhiAngles \X ThetaAngles \X PsiAngles

Diagnostics ==
  /\ dg_pc = "in"
  /\ LET phi_error   == AngError(ref_ang[1], cur_ang[1])
         theta_error == AngError(ref_ang[2], cur_ang[2])
         psi_error   == AngError(ref_ang[3], cur_ang[3])
     IN  /\ ang_error' = <<phi_error, theta_error, psi_error>>
         /\ rot_error' = phi_error + theta_error + psi_error
  /\ dg_pc' = "out"
  /\ UNCHANGED <<ref_ang, cur_ang>>
  /\ UNCHANGED <<cfgVars, runVars, bsVars>>

DiagNext == Diagnostics
SpecDiag == DiagInit /\ [][DiagNext]_vars


-----------------------------------------------------------------------------
\* Properties.

Distinct(s) == \A i, j \in DOMAIN s : i # j => s[i] # s[j]
InLoop      == pc \in {"render", "step", "log"}

\* C1: with a sampling strategy that is not one of the three known ones,
\* estimate_pose ends by raising a configuration error, having run no
\* iteration and done no stochastic work (noise, twist initialisation,
\* sampling); it never returns silently.
C1_UnknownStrategyFailsFast ==
  (sampling_strategy \notin KnownStrategies /\ pc = "done") =>
     /\ ret = Raise("ConfigurationError")
     /\ rng = {}

\* C2: when the detector finds no point of interest and the strategy is
\* interest_points or interest_regions, estimate_pose ends by raising a
\* configuration error, not an indexing or sampling error.
C2_EmptyPOIRaisesConfigurationError ==
  ( /\ sampling_strategy \in {"interest_points", "interest_regions"}
    /\ pc = "done" /\ POI = <<>> ) =>
     ret = Raise("ConfigurationError")

\* C3: under interest_points every drawn batch has batch_size rows; with
\* |POI| >= batch_size the rows are distinct points of POI; with
\* |POI| < batch_size the first |POI| rows are the POI set and the other
\* rows are distinct grid coordinates outside POI.
C3_InterestPointsBatch ==
  (sampling_strategy = "interest_points" /\ batch # <<>>) =>
     /\ Len(batch) = batch_size
     /\ IF Cardinality(Range(POI)) >= batch_size
        THEN Distinct(batch) /\ Range(batch) \subseteq Range(POI)
        ELSE LET n    == Cardinality(Range(POI))
                 head == SubSeq(batch, 1, n)
                 tail == SubSeq(batch, n + 1, Len(batch))
             IN  /\ Range(head) = Range(POI)
                 /\ Distinct(tail)
                 /\ Range(tail) \subseteq Grid(W, H)
                 /\ Range(tail) \cap Range(POI) = {}

C3_Witness_Fallback ==
  /\ sampling_strategy = "interest_points" /\ pc = "render"
  /\ Len(POI) = 1 /\ batch_size = 2 /\ Len(batch) = 2
  /\ batch[1] = POI[1] /\ batch[2] # POI[1]

\* C4: in every iteration, under each of the three strategies, the batch in
\* use has batch_size coordinates, no two equal, each <<x, y>> with
\* 0 <= x < W and 0 <= y < H.
C4_BatchWellFormed ==
  /\ (sampling_strategy \in KnownStrategies /\ batch # <<>>) =>
        /\ Len(batch) = batch_size
        /\ Distinct(batch)
        /\ \A i \in DOMAIN batch :
              /\ 0 <= batch[i][1] /\ batch[i][1] < W
              /\ 0 <= batch[i][2] /\ batch[i][2] < H
  /\ InLoop => (sampling_strategy \in KnownStrategies /\ batch # <<>>)

\* a random batch reaching the far corner of a non-square grid
C4_Witness_RandomBatch ==
  /\ sampling_strategy = "random" /\ pc = "step" /\ k = 1
  /\ W = 3 /\ H = 1 /\ batch_size = 2
  /\ batch = <<(<<2, 0>>), (<<0, 0>>)>>

\* C5: a call that runs all of its N_iter >= 1 iterations with a known
\* strategy returns the pose of the last iteration, and the estimator's
\* pose_prior then equals the returned pose.
C5_ReturnsAndCachesFinalPose ==
  /\ (pc = "done" /\ ret.kind = "return") =>
        /\ N_iter >= 1 /\ k = N_iter
        /\ sampling_strategy \in KnownStrategies
        /\ ret.val = pose /\ pose.kind = "pose"
        /\ pose_prior = ret.val
  /\ (pc = "done" /\ N_iter >= 1 /\ k = N_iter) => ret.kind = "return"

C5_Witness_Returned ==
  /\ pc = "done" /\ N_iter = 2 /\ k = 2
  /\ ret.kind = "return" /\ pose_prior = pose /\ pose # NoPose

\* C6: when the loss of an iteration is non-finite, the loop aborts there:
\* the optimizer takes no step with that loss and the call ends, returning
\* a pose.
C6_NonFiniteLossAborts ==
  [][ (pc = "step" /\ loss = "nonfinite") =>
        (twist' = twist /\ pc' = "done" /\ ret'.kind = "return") ]_vars

\* C7: for reference and current angles in [-180, 180], each per-axis error
\* is d = |ref - cur| when d < 300 and 360 - d otherwise (so 170 against
\* -170 gives 20), and the rotation error is the sum of the three.
C7_AngularError ==
  dg_pc = "out" =>
     /\ \A i \in 1..3 :
           LET d == IF ref_ang[i] >= cur_ang[i] THEN ref_ang[i] - cur_ang[i]
                                                 ELSE cur_ang[i] - ref_ang[i]
           IN  /\ d < 300 => ang_error[i] = d
               /\ d >= 300 => ang_error[i] = 360 - d
               /\ (ref_ang[i] = 170 /\ cur_ang[i] = -170) => ang_error[i] = 20
     /\ rot_error = ang_error[1] + ang_error[2] + ang_error[3]

C7_Witness_Wraparound ==
  /\ dg_pc = "out"
  /\ ref_ang[1] = 170 /\ cur_ang[1] = -170 /\ ang_error[1] = 20
  /\ ref_ang[3] = 170 /\ cur_ang[3] = -180 /\ rot_error > 20

\* C8: the brightness shift is clamp-then-add (delta < 0: values below
\* |delta| become 0, the others get delta added; delta > 0: values above
\* 1 - delta become 1, the others get delta added), and its output is in
\* [0, 1] for every value in [0, 1] and every delta in [-1, 1].
C8_BrightnessShift ==
  (bs_pc = "out" /\ bs_delta # 0) =>
     /\ bs_delta < 0 =>
           bs_out = (IF bs_v < -bs_delta THEN 0 ELSE bs_v + bs_delta)
     /\ bs_delta > 0 =>
           bs_out = (IF bs_v > ValScale - bs_delta THEN ValScale
                                                   ELSE bs_v + bs_delta)
     /\ 0 <= bs_out /\ bs_out <= ValScale

C8_Witness_Clamped ==
  /\ bs_pc = "out" /\ bs_delta = -4 /\ bs_v = 3 /\ bs_out = 0

\* C9: whatever resample interval r is configured, an iteration k with
\* k mod r # 0 draws no batch: it uses the batch of iteration k - 1.
C9_ResampleIntervalHonoured ==
  [][ \A r \in 1..MaxInterval :
        (pc = "sample" /\ k % r # 0) => (batch' = batch /\ ~drawn') ]_vars

\* C10: after the optimizer step of iteration k the learning rate is
\* base_lr * 0.8^((k+1)/100), computed from the configured base_lr, which
\* the call never changes.
C10_LearningRateSchedule ==
  /\ [](pc = "log" => lr = [base |-> lrate, e |-> k + 1])
  /\ [][lrate' = lrate]_vars

C10_Witness_SecondStep ==
  /\ pc = "log" /\ k = 1 /\ lrate = 1 /\ lr = [base |-> 1, e |-> 2]


\* C11: the 8-bit image is divided by 255 exactly once whatever the
\* brightness delta, so a pixel enters the brightness shift (when there is
\* one) and otherwise the noise step as its 8-bit value over 255: 255
\* enters as 1.0.
C11_NormalizedOnce ==
  bs_pc \in {"brightened", "noised"} =>
     /\ n_norm = 1
     /\ bs_delta # 0 => (bs_v * MaxPix = ToFloat(obs8)
                          /\ (obs8 = MaxPix => bs_v = One))
     /\ (bs_delta = 0 /\ bs_pc = "noised") =>
           (noise_in * MaxPix = ToFloat(obs8)
            /\ (obs8 = MaxPix => noise_in = One))


\* C12: the pose returned and cached is the candidate pose of the last
\* iteration, computed from the twist as it was before that iteration's
\* optimizer step: after N_iter iterations the twist has had N_iter steps
\* and the returned pose reflects N_iter - 1 of them.
C12_ReturnedPoseLagsLastStep ==
  (pc = "done" /\ ret.kind = "return") =>
     /\ twist.n = N_iter
     /\ ret.val.start = start_pose
     /\ ret.val.tw.n = N_iter - 1
     /\ ret.val # Forward(twist, start_pose)
     /\ pose_prior = ret.val

C12_Witness_TwoIterations ==
  /\ pc = "done" /\ N_iter = 2 /\ twist.n = 2
  /\ ret.kind = "return" /\ ret.val.tw.n = 1 /\ pose_prior.tw.n = 1

=============================================================================
